---- MODULE Spec2Model ----
(***************************************************************************)
(* Model of the keychain query and export engine of codesigndoc:           *)
(*   osxkeychain.FindIdentity, osxkeychain.ExportFromKeychain,             *)
(*   osxkeychain.ReleaseRefList and the export part of cli.scan.           *)
(* CoreFoundation objects are modelled by their reference counts: what the *)
(* code creates, copies, retains and releases.                             *)
(***************************************************************************)
EXTENDS Integers, Sequences, FiniteSets, TLC

VARIABLES
    store,              \* the identity records the keychain query returns
    labels,             \* codeSigningSettings.Identities (their titles)
    pc,                 \* position of the running program
    idx,                \* position of scan's loop over the identities
    identityExportRefs, \* scan: the accumulated identity references
    deferredRefs,       \* scan: the argument the deferred ReleaseRefList got
    i,                  \* FindIdentity: loop index (0-based, as in the code)
    retIdentityRefs,    \* FindIdentity: the accumulator
    identityRefs,       \* FindIdentity's returned slice
    err,                \* the error value of the last call
    acq,                \* objects created or copied, per kind
    rel,                \* objects released (CFRelease), per kind
    held,               \* identity -> references held by live containers
    retained,           \* identity -> CFRetain calls made by the code
    released,           \* identity -> CFRelease calls made by the code
    uar,                \* TRUE once an object was used after its last release
    itemRefsToExport,   \* ExportFromKeychain: its input slice
    outputFile,         \* the file at outputFilePath
    exportedData,       \* ExportFromKeychain: the CFData the export produced
    dataBytes,          \* ExportFromKeychain: the Go copy of the bytes
    exportCalls,        \* the SecItemExport calls made so far, with their input
    copiedAt,           \* releases of the exported data seen when it was copied
    dirCreated,         \* scan: the export directory was created by this run
    osStatus,           \* the status the last keychain call returned
    refItems,           \* ReleaseRefList: its input slice
    releaseLog,         \* ReleaseRefList: the references it released, in order
    writeCalls,         \* the results of the WriteBytesToFile calls made so far
    readKey,            \* attribute reader: the key of a direct read
    readOut,            \* attribute reader: what a direct read returned
    answer              \* scan: the answer to the export question

vars == << store, labels, pc, idx, identityExportRefs, deferredRefs, i,
           retIdentityRefs, identityRefs, err, acq, rel, held, retained,
           released, uar, itemRefsToExport, outputFile, exportedData,
           dataBytes, exportCalls, copiedAt, dirCreated, osStatus, refItems,
           releaseLog, writeCalls, readKey, readOut, answer >>

-----------------------------------------------------------------------------
(* Bounds of the model *)

MaxRecords == 3

MaxDataLen == 2

(* Program constants *)

errSecSuccess == 0

MaxCInt == 2147483647

Labels == {"A", "B"}

\* Non-success OSStatus values a keychain call may return.
ErrStatuses == {0 - 25293, 0 - 25300}

Identities == 1..MaxRecords

ObjectKinds == {"queryDict", "resultRefs", "keyString", "passphrase",
                "cfArrayForExport", "exportedData"}

-----------------------------------------------------------------------------
(* Values stored in an attribute dictionary *)

Absent == [tag |-> "absent", text |-> "", id |-> 0]

NullValue == [tag |-> "null", text |-> "", id |-> 0]

NumberValue == [tag |-> "number", text |-> "", id |-> 0]

\* A CFString whose CFStringGetCStringPtr is NULL
StringNoPtr == [tag |-> "stringnoptr", text |-> "", id |-> 0]

StringValue(s) == [tag |-> "string", text |-> s, id |-> 0]

IdentityRef(h) == [tag |-> "identity", text |-> "", id |-> h]

LablValues == {StringValue(l) : l \in Labels}
                 \cup {Absent, NullValue, NumberValue, StringNoPtr}

\* The record at position k has its own identity k (or no v_Ref attribute).
RecordAt(k, pair) ==
    [labl |-> pair[1], v_Ref |-> IF pair[2] THEN IdentityRef(k) ELSE Absent]

\* The labl values of the keychains a run of scan is checked with: the labels,
\* a record without the attribute and a record whose labl is no string.
StoreLablValues == {StringValue(l) : l \in Labels} \cup {Absent, NumberValue}

StoresOfSize(n) ==
    { [k \in 1..n |-> RecordAt(k, f[k])] :
        f \in [1..n -> StoreLablValues \X BOOLEAN] }

Stores == UNION { StoresOfSize(n) : n \in 0..MaxRecords }

NoError == [kind |-> "nil", code |-> 0, detail |-> ""]

Error(kind, code, detail) == [kind |-> kind, code |-> code, detail |-> detail]

-----------------------------------------------------------------------------
(* The typed attribute reader *)

CFDictionaryGetValueIfPresent(dict, key) == dict[key].tag # "absent"

CFDictionaryGetValue(dict, key) == dict[key]

getCFDictValueRef(dict, key) ==
    IF ~CFDictionaryGetValueIfPresent(dict, key)
    THEN [val |-> Absent, err |-> "getCFDictValueRef: Key doesn't exist"]
    ELSE [val |-> CFDictionaryGetValue(dict, key), err |-> ""]

\* The type check of line 179 left out.
IsCFStringUnchecked(val) == TRUE

IsCFString(val) == val.tag \in {"string", "stringnoptr"}

getCFDictValueCFStringRef(dict, key) ==
    LET r == getCFDictValueRef(dict, key) IN
    IF r.err # "" THEN r
    ELSE IF r.val.tag = "null"
    THEN [val |-> Absent, err |-> "getCFDictValueCFStringRef: Nil value returned"]
    ELSE IF ~IsCFString(r.val)
    THEN [val |-> Absent, err |-> "getCFDictValueCFStringRef: value is not a string"]
    ELSE r

CFStringGetCStringPtr(val) == IF val.tag = "string" THEN val.text ELSE "NULL"

getCFDictValueUTF8String(dict, key) ==
    LET r == getCFDictValueCFStringRef(dict, key) IN
    IF r.err # "" THEN [str |-> "", err |-> r.err]
    ELSE IF CFStringGetCStringPtr(r.val) = "NULL"
    THEN [str |-> "",
          err |-> "getCFDictValueUTF8String: failed to convert value to string"]
    ELSE [str |-> CFStringGetCStringPtr(r.val), err |-> ""]

-----------------------------------------------------------------------------
(* Reference counting *)

\* A retain made twice.
CFRetainTwice(count, h) == [count EXCEPT ![h] = @ + 2]

\* The retain of line 145 left out: the reference stays a borrowed one.
CFRetainMissing(count, h) == count

CFRetain(count, h) == [count EXCEPT ![h] = @ + 1]

CFRelease(count, h) == [count EXCEPT ![h] = @ + 1]

\* An object kind has a live instance; an identity is still referenced.
Live(kind) == acq[kind] > rel[kind]

RefCount(h) == held[h] + retained[h] - released[h]

Valid(h) == RefCount(h) > 0

Occurrences(seq, h) == Cardinality({k \in 1..Len(seq) : seq[k] = h})

\* The identity references a result array of these records holds.
ArrayRefs(arr, h) ==
    Cardinality({k \in 1..Len(arr) :
                    arr[k].v_Ref.tag = "identity" /\ arr[k].v_Ref.id = h})

\* SecItemCopyMatching builds the result array: it owns its records' values.
CopyMatchingHolds(arr) == [h \in Identities |-> held[h] + ArrayRefs(arr, h)]

\* The deferred CFRelease(resultRefs): the array lets go of what it held.
ReleaseResultRefs(arr) == [h \in Identities |-> held[h] - ArrayRefs(arr, h)]

\* CFArrayCreate with kCFTypeArrayCallBacks retains every element it is given.
ArrayCreateHolds(items) == [h \in Identities |-> held[h] + Occurrences(items, h)]

\* A release that does nothing.
ReleaseRefSkipped(st, refItem) == st

\* ReleaseRef on st = [count, log]: the release counts and the releases made.
ReleaseRef(st, refItem) ==
    [count |-> CFRelease(st.count, refItem), log |-> Append(st.log, refItem)]

\* ReleaseRefList: ReleaseRef on every item, first to last.
RECURSIVE ReleaseRefList(_, _)
ReleaseRefList(items, st) ==
    IF items = << >> THEN st
    ELSE ReleaseRefList(Tail(items), ReleaseRef(st, Head(items)))

-----------------------------------------------------------------------------
(* FindIdentity *)

\* The status check of line 103 left out.
CopyMatchingFailedIgnored(osStatusCode) == FALSE

CopyMatchingFailed(osStatusCode) == osStatusCode # errSecSuccess

CFArrayGetCount(arr) == Len(arr)

\* CFArrayGetValueAtIndex takes a 0-based index.
CFArrayGetValueAtIndex(arr, n) == arr[n + 1]

NoIdentities(identitiesCount) == identitiesCount < 1

LoopStart(identitiesCount) == identitiesCount - 1

LoopCond(n) == n > 0

\* One pass of the loop body on the loop's state
\*   st = [ret, err, keys, retained]
\* ret: retIdentityRefs; keys: the CFStrings made by convertCStringToCFString.
LoopBody(arr, identityLabel, n, st) ==
    LET aIdentityDictRef == CFArrayGetValueAtIndex(arr, n)
        labl == getCFDictValueUTF8String(aIdentityDictRef, "labl")
        vrefRef == getCFDictValueRef(aIdentityDictRef, "v_Ref")
    IN  IF labl.err # ""
        THEN [st EXCEPT !.err = Error("labl", 0, labl.err), !.keys = @ + 1]
        ELSE IF labl.str # identityLabel
        THEN [st EXCEPT !.keys = @ + 1]
        ELSE IF vrefRef.err # ""
        THEN [st EXCEPT !.err = Error("v_Ref", 0, vrefRef.err), !.keys = @ + 2]
        ELSE [st EXCEPT !.keys = @ + 2,
                        !.retained = CFRetain(@, vrefRef.val.id),
                        !.ret = Append(@, vrefRef.val.id)]

\* The loop from index n down, stopping at the first error (return).
RECURSIVE RunLoop(_, _, _, _)
RunLoop(arr, identityLabel, n, st) ==
    IF ~LoopCond(n) \/ st.err # NoError THEN st
    ELSE RunLoop(arr, identityLabel, n - 1, LoopBody(arr, identityLabel, n, st))

\* What a whole call returns on a successful query of these records.
FindIdentityOn(arr, identityLabel) ==
    IF NoIdentities(CFArrayGetCount(arr))
    THEN [ret |-> << >>, err |-> Error("NoIdentity", 0, ""), keys |-> 0,
          retained |-> [h \in Identities |-> 0]]
    ELSE RunLoop(arr, identityLabel, LoopStart(CFArrayGetCount(arr)),
                 [ret |-> << >>, err |-> NoError, keys |-> 0,
                  retained |-> [h \in Identities |-> 0]])

identityLabel == labels[idx]

\* FindIdentity, lines 94-105: build the query and run it.
FindIdentity_Query ==
    /\ pc = "fi_query"
    /\ \E osStatusCode \in {errSecSuccess} \cup ErrStatuses :
         /\ osStatus' = osStatusCode
         /\ IF CopyMatchingFailed(osStatusCode)
            THEN /\ err' = Error("SecItemCopyMatch", osStatusCode, "")
                 /\ identityRefs' = << >>
                 /\ acq' = [acq EXCEPT !["queryDict"] = @ + 1]
                 /\ rel' = [rel EXCEPT !["queryDict"] = @ + 1]
                 /\ held' = held
                 /\ pc' = "fi_returned"
            ELSE /\ acq' = [acq EXCEPT !["queryDict"] = @ + 1,
                                       !["resultRefs"] = @ + 1]
                 /\ held' = CopyMatchingHolds(store)
                 /\ pc' = "fi_count"
                 /\ UNCHANGED << err, identityRefs, rel >>
    /\ UNCHANGED << store, labels, idx, identityExportRefs, deferredRefs, i,
                    retIdentityRefs, retained, released, uar, itemRefsToExport,
                    outputFile, exportedData, dataBytes, exportCalls, copiedAt,
                    dirCreated,
                    refItems, releaseLog, writeCalls, readKey, readOut, answer >>

\* The deferred releases of a FindIdentity that got its result array.
FindIdentity_Defers ==
    /\ rel' = [rel EXCEPT !["queryDict"] = @ + 1, !["resultRefs"] = @ + 1]
    /\ held' = ReleaseResultRefs(store)

\* FindIdentity, lines 106-116: count the result.
FindIdentity_Count ==
    /\ pc = "fi_count"
    /\ IF NoIdentities(CFArrayGetCount(store))
       THEN /\ err' = Error("NoIdentity", 0, "")
            /\ identityRefs' = << >>
            /\ FindIdentity_Defers
            /\ pc' = "fi_returned"
            /\ UNCHANGED << i, retIdentityRefs >>
       ELSE /\ retIdentityRefs' = << >>
            /\ i' = LoopStart(CFArrayGetCount(store))
            /\ pc' = "fi_loop"
            /\ UNCHANGED << err, identityRefs, rel, held >>
    /\ UNCHANGED << store, labels, idx, identityExportRefs, deferredRefs, acq,
                    retained, released, uar, itemRefsToExport, outputFile,
                    exportedData, dataBytes, exportCalls, copiedAt, dirCreated,
                    osStatus,
                    refItems, releaseLog, writeCalls, readKey, readOut, answer >>

\* FindIdentity, lines 117-148: one iteration of the filter loop.
FindIdentity_Iterate ==
    /\ pc = "fi_loop"
    /\ LoopCond(i)
    /\ LET st == LoopBody(store, identityLabel, i,
                          [ret |-> retIdentityRefs, err |-> NoError, keys |-> 0,
                           retained |-> retained])
       IN  /\ retIdentityRefs' = st.ret
           /\ retained' = st.retained
           /\ uar' = (uar \/ ~Live("resultRefs"))
           /\ IF st.err # NoError
              THEN /\ err' = st.err
                   /\ identityRefs' = << >>
                   /\ acq' = [acq EXCEPT !["keyString"] = @ + st.keys]
                   /\ FindIdentity_Defers
                   /\ pc' = "fi_returned"
                   /\ i' = i
              ELSE /\ acq' = [acq EXCEPT !["keyString"] = @ + st.keys]
                   /\ i' = i - 1
                   /\ pc' = "fi_loop"
                   /\ UNCHANGED << err, identityRefs, rel, held >>
    /\ UNCHANGED << store, labels, idx, identityExportRefs, deferredRefs,
                    released, itemRefsToExport, outputFile, exportedData,
                    dataBytes, exportCalls, copiedAt, dirCreated,
                    osStatus,
                    refItems, releaseLog, writeCalls, readKey, readOut, answer >>

\* FindIdentity, lines 150-151: the loop is over, return the accumulator.
FindIdentity_Return ==
    /\ pc = "fi_loop"
    /\ ~LoopCond(i)
    /\ identityRefs' = retIdentityRefs
    /\ err' = NoError
    /\ FindIdentity_Defers
    /\ pc' = "fi_returned"
    /\ UNCHANGED << store, labels, idx, identityExportRefs, deferredRefs, i,
                    retIdentityRefs, acq, retained, released, uar,
                    itemRefsToExport, outputFile, exportedData, dataBytes,
                    exportCalls, copiedAt, dirCreated,
                    osStatus,
                    refItems, releaseLog, writeCalls, readKey, readOut, answer >>

-----------------------------------------------------------------------------
(* ExportFromKeychain *)

Bytes == {0, 1}

DataValues == UNION { [1..n -> Bytes] : n \in 0..MaxDataLen }

CFDataGetLength(data) == Len(data)

\* The conversion (C.int)(length) of a CFIndex.
CInt(n) == IF n <= MaxCInt THEN n ELSE n - MaxCInt - MaxCInt - 2

\* A copy that is one byte short.
GoBytesShort(data, n) == SubSeq(data, 1, n - 1)

\* C.GoBytes(ptr, n): a Go copy of the first n bytes at ptr.
GoBytes(data, n) == SubSeq(data, 1, n)

\* The status check of line 53 left out.
ExportFailedIgnored(status) == FALSE

ExportFailed(status) == status # errSecSuccess

\* What fileutil.WriteBytesToFile may leave behind: on success the bytes, on
\* failure nothing or a part of them.
WriteOutcomes(bytes) ==
    {[ok |-> TRUE, err |-> "", file |-> [written |-> TRUE, bytes |-> bytes]],
     [ok |-> FALSE, err |-> "permission denied", file |-> outputFile]}
      \cup {[ok |-> FALSE, err |-> "no space left on device",
             file |-> [written |-> TRUE, bytes |-> SubSeq(bytes, 1, n)]] :
                n \in 0..(Len(bytes) - 1)}

\* The write error dropped.
WriteErrorSwallowed(text) == NoError

\* The error of line 64, with the text of the file system's error.
WriteError(text) == Error("WriteFile", 0, text)

\* ExportFromKeychain, lines 22-44: the export parameters and the array.
\* Indexing an empty slice (line 39) is a run-time panic.
Export_Begin ==
    /\ pc = "ex_begin"
    /\ IF Len(itemRefsToExport) < 1
       THEN /\ acq' = [acq EXCEPT !["passphrase"] = @ + 1]
            /\ pc' = "panic"
            /\ UNCHANGED << held, uar >>
       ELSE /\ acq' = [acq EXCEPT !["passphrase"] = @ + 1,
                                  !["cfArrayForExport"] = @ + 1]
            /\ uar' = (uar \/ \E k \in 1..Len(itemRefsToExport) :
                                 ~Valid(itemRefsToExport[k]))
            /\ held' = ArrayCreateHolds(itemRefsToExport)
            /\ pc' = "ex_call"
    /\ UNCHANGED << store, labels, idx, identityExportRefs, deferredRefs, i,
                    retIdentityRefs, identityRefs, err, rel, retained, released,
                    itemRefsToExport, outputFile, exportedData, dataBytes,
                    exportCalls, copiedAt, dirCreated,
                    osStatus,
                    refItems, releaseLog, writeCalls, readKey, readOut, answer >>

\* ExportFromKeychain, lines 46-58: the export call and its status.
Export_Call ==
    /\ pc = "ex_call"
    /\ exportCalls' = Append(exportCalls, itemRefsToExport)
    /\ uar' = (uar \/ \E k \in 1..Len(itemRefsToExport) :
                         ~Valid(itemRefsToExport[k]))
    /\ \E status \in {errSecSuccess} \cup ErrStatuses :
         /\ osStatus' = status
         /\ IF ExportFailed(status)
            THEN /\ err' = Error("SecItemExport", status, "")
                 /\ pc' = "ex_returned"
                 /\ UNCHANGED << exportedData, acq >>
            ELSE /\ \E data \in DataValues : exportedData' = data
                 /\ acq' = [acq EXCEPT !["exportedData"] = @ + 1]
                 /\ pc' = "ex_copy"
                 /\ err' = NoError
    /\ UNCHANGED << store, labels, idx, identityExportRefs, deferredRefs, i,
                    retIdentityRefs, identityRefs, rel, held, retained, released,
                    itemRefsToExport, outputFile, dataBytes, copiedAt,
                    dirCreated,
                    refItems, releaseLog, writeCalls, readKey, readOut, answer >>

\* ExportFromKeychain, line 60: copy the bytes out of the exported data.
Export_Copy ==
    /\ pc = "ex_copy"
    /\ dataBytes' = GoBytes(exportedData, CInt(CFDataGetLength(exportedData)))
    /\ copiedAt' = rel["exportedData"]
    /\ uar' = (uar \/ ~Live("exportedData"))
    /\ pc' = "ex_write"
    /\ UNCHANGED << store, labels, idx, identityExportRefs, deferredRefs, i,
                    retIdentityRefs, identityRefs, err, acq, rel, held, retained,
                    released, itemRefsToExport, outputFile, exportedData,
                    exportCalls, dirCreated,
                    osStatus,
                    refItems, releaseLog, writeCalls, readKey, readOut, answer >>

\* ExportFromKeychain, lines 63-69 and the deferred release of line 58.
Export_Write ==
    /\ pc = "ex_write"
    /\ \E w \in WriteOutcomes(dataBytes) :
         /\ outputFile' = w.file
         /\ writeCalls' = Append(writeCalls, w.err)
         /\ err' = IF w.ok THEN NoError ELSE WriteError(w.err)
    /\ rel' = [rel EXCEPT !["exportedData"] = @ + 1]
    /\ pc' = "ex_returned"
    /\ UNCHANGED << store, labels, idx, identityExportRefs, deferredRefs, i,
                    retIdentityRefs, identityRefs, acq, held, retained, released,
                    uar, itemRefsToExport, exportedData, dataBytes, exportCalls,
                    copiedAt, dirCreated,
                    osStatus,
                    refItems, releaseLog, readKey, readOut, answer >>

-----------------------------------------------------------------------------
(* cli.scan, from the code signing checks on *)

\* The lists of required identity titles a run is checked with.
RequiredIdentities ==
    {<< >>, <<"A">>, <<"B">>, <<"A", "B">>, <<"A", "A">>}

\* log.Fatal: the process exits, deferred calls do not run.
Fatal == pc' = "fatal"

\* The check of line 96 left out.
NoneDetectedIgnored(count) == FALSE

\* scan, lines 96 and 105: nothing of the kind was detected.
NoneDetected(count) == count < 1

\* scan, lines 96-107: the code signing checks.
Scan_CheckSettings ==
    /\ pc = "start"
    /\ \E provProfiles \in 0..1 :
         IF NoneDetected(Len(labels)) \/ NoneDetected(provProfiles)
         THEN Fatal ELSE pc' = "ask"
    /\ UNCHANGED << store, labels, idx, identityExportRefs, deferredRefs, i,
                    retIdentityRefs, identityRefs, err, acq, rel, held, retained,
                    released, uar, itemRefsToExport, outputFile, exportedData,
                    dataBytes, exportCalls, copiedAt, dirCreated,
                    osStatus,
                    refItems, releaseLog, writeCalls, readKey, readOut, answer >>

\* A "no" that is not acted on.
DeclinedIgnored(input) == FALSE

\* scan, line 117: !isShouldExport
Declined(input) == input = "no"

\* scan, lines 113-120: ask whether to export.
Scan_Ask ==
    /\ pc = "ask"
    /\ \E input \in {"yes", "no", "error"} :
         /\ answer' = input
         /\ CASE input = "error" -> Fatal
              [] input # "error" /\ Declined(input) -> pc' = "done"
              [] input # "error" /\ ~Declined(input) -> pc' = "mkdir"
    /\ UNCHANGED << store, labels, idx, identityExportRefs, deferredRefs, i,
                    retIdentityRefs, identityRefs, err, acq, rel, held, retained,
                    released, uar, itemRefsToExport, outputFile, exportedData,
                    dataBytes, exportCalls, copiedAt, dirCreated,
                    osStatus,
                    refItems, releaseLog, writeCalls, readKey, readOut >>

\* scan, lines 128-141: the export directory.
Scan_ExportDir ==
    /\ pc = "mkdir"
    /\ \E outcome \in {"exists", "created", "error"} :
         CASE outcome = "error" -> Fatal /\ dirCreated' = dirCreated
           [] outcome = "exists" -> pc' = "defer" /\ dirCreated' = dirCreated
           [] outcome = "created" -> pc' = "defer" /\ dirCreated' = TRUE
    /\ UNCHANGED << store, labels, idx, identityExportRefs, deferredRefs, i,
                    retIdentityRefs, identityRefs, err, acq, rel, held, retained,
                    released, uar, itemRefsToExport, outputFile, exportedData,
                    dataBytes, exportCalls, copiedAt,
                    osStatus,
                    refItems, releaseLog, writeCalls, readKey, readOut, answer >>

\* scan, lines 143-144: the empty list, and the deferred ReleaseRefList, whose
\* argument is evaluated here.
Scan_Defer ==
    /\ pc = "defer"
    /\ identityExportRefs' = << >>
    /\ deferredRefs' = identityExportRefs'
    /\ idx' = 1
    /\ pc' = "scan_loop"
    /\ UNCHANGED << store, labels, i, retIdentityRefs, identityRefs, err, acq,
                    rel, held, retained, released, uar, itemRefsToExport,
                    outputFile, exportedData, dataBytes, exportCalls, copiedAt,
                    dirCreated,
                    osStatus,
                    refItems, releaseLog, writeCalls, readKey, readOut, answer >>

\* scan, lines 147-149: the next identity is looked up.
Scan_CallFindIdentity ==
    /\ pc = "scan_loop"
    /\ idx <= Len(labels)
    /\ pc' = "fi_query"
    /\ UNCHANGED << store, labels, idx, identityExportRefs, deferredRefs, i,
                    retIdentityRefs, identityRefs, err, acq, rel, held, retained,
                    released, uar, itemRefsToExport, outputFile, exportedData,
                    dataBytes, exportCalls, copiedAt, dirCreated,
                    osStatus,
                    refItems, releaseLog, writeCalls, readKey, readOut, answer >>

\* The check for several matches (line 157) left out.
NotExportableNoMultiple(e, refs) == e # NoError \/ Len(refs) < 1

\* scan, lines 150-159: the three conditions that end the run.
NotExportable(e, refs) == e # NoError \/ Len(refs) < 1 \/ Len(refs) > 1

\* scan, lines 150-160: what FindIdentity returned.
Scan_CheckIdentity ==
    /\ pc = "fi_returned"
    /\ IF NotExportable(err, identityRefs)
       THEN Fatal /\ UNCHANGED << identityExportRefs, idx >>
       ELSE /\ identityExportRefs' = identityExportRefs \o identityRefs
            /\ idx' = idx + 1
            /\ pc' = "scan_loop"
    /\ UNCHANGED << store, labels, deferredRefs, i, retIdentityRefs,
                    identityRefs, err, acq, rel, held, retained, released, uar,
                    itemRefsToExport, outputFile, exportedData, dataBytes,
                    exportCalls, copiedAt, dirCreated,
                    osStatus,
                    refItems, releaseLog, writeCalls, readKey, readOut, answer >>

\* scan, line 163: every identity was found, the export is called.
Scan_CallExport ==
    /\ pc = "scan_loop"
    /\ idx > Len(labels)
    /\ itemRefsToExport' = identityExportRefs
    /\ pc' = "ex_begin"
    /\ UNCHANGED << store, labels, idx, identityExportRefs, deferredRefs, i,
                    retIdentityRefs, identityRefs, err, acq, rel, held, retained,
                    released, uar, outputFile, exportedData, dataBytes,
                    exportCalls, copiedAt, dirCreated,
                    osStatus,
                    refItems, releaseLog, writeCalls, readKey, readOut, answer >>

\* scan, lines 163-165: what ExportFromKeychain returned.
Scan_CheckExport ==
    /\ pc = "ex_returned"
    /\ IF err # NoError THEN Fatal ELSE pc' = "profiles"
    /\ UNCHANGED << store, labels, idx, identityExportRefs, deferredRefs, i,
                    retIdentityRefs, identityRefs, err, acq, rel, held, retained,
                    released, uar, itemRefsToExport, outputFile, exportedData,
                    dataBytes, exportCalls, copiedAt, dirCreated,
                    osStatus,
                    refItems, releaseLog, writeCalls, readKey, readOut, answer >>

\* scan, lines 167-192: the provisioning profiles are copied; then scan returns
\* and the deferred ReleaseRefList of line 144 runs on the argument it got.
Scan_Return ==
    /\ pc = "profiles"
    /\ \E found \in BOOLEAN :
         IF ~found
         THEN Fatal /\ UNCHANGED << released, refItems, releaseLog >>
         ELSE /\ LET st == ReleaseRefList(deferredRefs,
                                          [count |-> released, log |-> releaseLog])
                 IN  released' = st.count /\ releaseLog' = st.log
              /\ refItems' = deferredRefs
              /\ pc' = "done"
    /\ UNCHANGED << store, labels, idx, identityExportRefs, deferredRefs, i,
                    retIdentityRefs, identityRefs, err, acq, rel, held, retained,
                    uar, itemRefsToExport, outputFile, exportedData, dataBytes,
                    exportCalls, copiedAt, dirCreated,
                    osStatus,
                    writeCalls, readKey, readOut, answer >>

-----------------------------------------------------------------------------
(* Specifications *)

NoObjects == [k \in ObjectKinds |-> 0]

NoRefs == [h \in Identities |-> 0]

InitFrames ==
    /\ idx = 1
    /\ identityExportRefs = << >>
    /\ deferredRefs = << >>
    /\ i = 0
    /\ retIdentityRefs = << >>
    /\ identityRefs = << >>
    /\ err = NoError
    /\ acq = NoObjects
    /\ rel = NoObjects
    /\ held = NoRefs
    /\ released = NoRefs
    /\ uar = FALSE
    /\ outputFile = [written |-> FALSE, bytes |-> << >>]
    /\ exportedData = << >>
    /\ dataBytes = << >>
    /\ exportCalls = << >>
    /\ copiedAt = 0
    /\ dirCreated = FALSE
    /\ osStatus = errSecSuccess
    /\ releaseLog = << >>
    /\ writeCalls = << >>
    /\ readOut = [val |-> Absent, str |-> "", err |-> "", referr |-> ""]
    /\ answer = "none"

\* A run of scan against a keychain.
Init ==
    /\ store \in Stores
    /\ labels \in RequiredIdentities
    /\ pc = "start"
    /\ retained = NoRefs
    /\ itemRefsToExport = << >>
    /\ refItems = << >>
    /\ readKey = ""
    /\ InitFrames

Next ==
    \/ Scan_CheckSettings
    \/ Scan_Ask
    \/ Scan_ExportDir
    \/ Scan_Defer
    \/ Scan_CallFindIdentity
    \/ FindIdentity_Query
    \/ FindIdentity_Count
    \/ FindIdentity_Iterate
    \/ FindIdentity_Return
    \/ Scan_CheckIdentity
    \/ Scan_CallExport
    \/ Export_Begin
    \/ Export_Call
    \/ Export_Copy
    \/ Export_Write
    \/ Scan_CheckExport
    \/ Scan_Return

Spec == Init /\ [][Next]_vars

\* A direct call of ExportFromKeychain on a slice of references its caller owns.
OwnedSlices ==
    UNION { [1..n -> Identities] : n \in 0..MaxRecords }

InitExport ==
    /\ store = << >>
    /\ labels = << >>
    /\ pc = "ex_begin"
    /\ itemRefsToExport \in OwnedSlices
    /\ retained = [h \in Identities |-> Occurrences(itemRefsToExport, h)]
    /\ refItems = << >>
    /\ readKey = ""
    /\ InitFrames

NextExport ==
    \/ Export_Begin
    \/ Export_Call
    \/ Export_Copy
    \/ Export_Write

SpecExport == InitExport /\ [][NextExport]_vars

\* A direct call of ReleaseRefList on a slice of references its caller owns;
\* others may hold further retains of the same objects.
InitRelease ==
    /\ store = << >>
    /\ labels = << >>
    /\ pc = "rl_call"
    /\ itemRefsToExport = << >>
    /\ refItems \in OwnedSlices
    /\ \E others \in [Identities -> 0..1] :
         retained = [h \in Identities |-> Occurrences(refItems, h) + others[h]]
    /\ readKey = ""
    /\ InitFrames

\* ReleaseRefList, lines 77-82.
ReleaseRefList_Call ==
    /\ pc = "rl_call"
    /\ LET st == ReleaseRefList(refItems, [count |-> released, log |-> releaseLog])
       IN  released' = st.count /\ releaseLog' = st.log
    /\ pc' = "rl_returned"
    /\ UNCHANGED << store, labels, idx, identityExportRefs, deferredRefs, i,
                    retIdentityRefs, identityRefs, err, acq, rel, held, retained,
                    uar, itemRefsToExport, outputFile, exportedData, dataBytes,
                    exportCalls, copiedAt, dirCreated, osStatus, refItems,
                    writeCalls, readKey, readOut, answer >>

NextRelease == ReleaseRefList_Call

SpecRelease == InitRelease /\ [][NextRelease]_vars

\* A direct read of one attribute of one dictionary.
AttrValues == LablValues \cup {IdentityRef(h) : h \in Identities}

AttrKeys == {"labl", "v_Ref"}

InitReader ==
    /\ \E v \in AttrValues, w \in AttrValues :
         store = << [labl |-> v, v_Ref |-> w] >>
    /\ labels = << >>
    /\ pc = "rd_call"
    /\ itemRefsToExport = << >>
    /\ refItems = << >>
    /\ retained = NoRefs
    /\ readKey \in AttrKeys
    /\ InitFrames

\* getCFDictValueRef, lines 158-168, called on the dictionary.
Reader_GetRef ==
    /\ pc = "rd_call"
    /\ LET r == getCFDictValueRef(store[1], readKey)
       IN  readOut' = [val |-> r.val, str |-> "", err |-> r.err, referr |-> r.err]
    /\ pc' = "rd_ref"
    /\ UNCHANGED << store, labels, idx, identityExportRefs, deferredRefs, i,
                    retIdentityRefs, identityRefs, err, acq, rel, held, retained,
                    released, uar, itemRefsToExport, outputFile, exportedData,
                    dataBytes, exportCalls, copiedAt, dirCreated, osStatus,
                    refItems, releaseLog, writeCalls, readKey, answer >>

\* getCFDictValueUTF8String, lines 190-207, called on the dictionary.
Reader_GetString ==
    /\ pc = "rd_call"
    /\ LET r == getCFDictValueUTF8String(store[1], readKey)
       IN  readOut' = [val |-> Absent, str |-> r.str, err |-> r.err,
                       referr |-> getCFDictValueRef(store[1], readKey).err]
    /\ pc' = "rd_string"
    /\ UNCHANGED << store, labels, idx, identityExportRefs, deferredRefs, i,
                    retIdentityRefs, identityRefs, err, acq, rel, held, retained,
                    released, uar, itemRefsToExport, outputFile, exportedData,
                    dataBytes, exportCalls, copiedAt, dirCreated, osStatus,
                    refItems, releaseLog, writeCalls, readKey, answer >>

NextReader ==
    \/ Reader_GetRef
    \/ Reader_GetString

SpecReader == InitReader /\ [][NextReader]_vars

-----------------------------------------------------------------------------
(* Vocabulary of the properties *)

\* The error kinds of the design, for the errors the code returns.
ErrorKind(e) ==
    CASE e.kind = "nil" -> "none"
      [] e.kind = "NoIdentity" -> "NotFound"
      [] e.kind = "WriteFile" -> "IoFailure"
      [] e.kind \in {"SecItemCopyMatch", "labl", "v_Ref", "SecItemExport"}
           -> "StoreFailure"

\* Every record has a readable labl and a v_Ref.
WellFormed(arr) ==
    \A k \in 1..Len(arr) : arr[k].labl.tag = "string" /\ arr[k].v_Ref.tag = "identity"

\* The positions of the records that carry the label.
Matching(arr, label) == {k \in 1..Len(arr) : arr[k].labl = StringValue(label)}

\* FindIdentity has returned to scan, and its query had succeeded.
Returned == pc = "fi_returned"

QueryDone == Returned /\ osStatus = errSecSuccess

\* The retains of the running FindIdentity call that nobody released: all
\* retains but those already handed over to scan's list.
CallOutstanding(h) ==
    retained[h] - released[h] - Occurrences(identityExportRefs, h)

Range(seq) == {seq[k] : k \in 1..Len(seq)}

Permute(arr, p) == [k \in 1..Len(arr) |-> arr[p[k]]]

-----------------------------------------------------------------------------
(* Properties *)

\* C1: when exactly one record carries the label, at any position of the
\* result array, FindIdentity returns exactly one retained reference, the
\* v_Ref of that record.
C1_OneMatchOneHandle ==
    (QueryDone /\ WellFormed(store)
       /\ Cardinality(Matching(store, identityLabel)) = 1)
    => /\ err = NoError
       /\ Len(identityRefs) = 1
       /\ \A k \in Matching(store, identityLabel) :
            /\ identityRefs[1] = store[k].v_Ref.id
            /\ CallOutstanding(store[k].v_Ref.id) = 1

\* C2: when two or more records carry the label, FindIdentity returns an
\* Ambiguous error, no references, and has released every reference it retained.
C2_AmbiguousReleased ==
    (QueryDone /\ WellFormed(store)
       /\ Cardinality(Matching(store, identityLabel)) >= 2)
    => /\ err # NoError
       /\ ErrorKind(err) = "Ambiguous"
       /\ identityRefs = << >>
       /\ \A h \in Identities : CallOutstanding(h) = 0

\* C3: when no record carries the label (an empty result, or records with other
\* labels only), FindIdentity returns NotFound, never success with an empty
\* result, and no reference it retained is outstanding.
C3_NoMatchNotFound ==
    (QueryDone /\ WellFormed(store) /\ Matching(store, identityLabel) = {})
    => /\ ErrorKind(err) = "NotFound"
       /\ \A h \in Identities : CallOutstanding(h) = 0

\* C4: whenever FindIdentity returns an error, at whatever step, every reference
\* the call retained so far has been released.
C4_ErrorReleasesAll ==
    (Returned /\ err # NoError)
    => \A h \in Identities : CallOutstanding(h) = 0

\* C5: at the end of a run of scan, however it ends, every identity reference
\* accumulated in the export list has been released exactly once.
C5_ListReleasedOnce ==
    pc \in {"done", "fatal", "panic"}
    => \A h \in Range(identityExportRefs) :
          released[h] = Occurrences(identityExportRefs, h)

\* C6: ExportFromKeychain on an empty slice returns the EmptyInput error as a
\* value: no crash, no array built, no export call, no file written.
C6_EmptyInputError ==
    (Len(itemRefsToExport) = 0 /\ pc # "ex_begin")
    => /\ pc = "ex_returned"
       /\ err # NoError
       /\ acq["cfArrayForExport"] = 0
       /\ exportCalls = << >>
       /\ ~outputFile.written

\* C7: when the export and the write succeed, the file holds exactly the bytes
\* of the exported data, as many as its reported length, and the exported data
\* was released exactly once, after the copy and not before.
C7_FileIsExportedData ==
    /\ (pc \in {"ex_copy", "ex_write"}) => rel["exportedData"] = 0
    /\ (pc = "ex_returned" /\ err = NoError)
       => /\ outputFile = [written |-> TRUE, bytes |-> exportedData]
          /\ Len(outputFile.bytes) = CFDataGetLength(exportedData)
          /\ acq["exportedData"] = 1
          /\ rel["exportedData"] = 1
          /\ copiedAt = 0

C7_Witness ==
    /\ pc = "ex_returned"
    /\ err = NoError
    /\ outputFile.written
    /\ Len(exportedData) = MaxDataLen
    /\ rel["exportedData"] = 1

\* C8: when the export call returns a non-success status, ExportFromKeychain
\* returns an error carrying that status, the exported data (never produced) is
\* not released, and no file is written.
C8_ExportFailure ==
    (pc = "ex_returned" /\ osStatus # errSecSuccess)
    => /\ err = Error("SecItemExport", osStatus, "")
       /\ ErrorKind(err) = "StoreFailure"
       /\ acq["exportedData"] = 0
       /\ rel["exportedData"] = 0
       /\ dataBytes = << >>
       /\ ~outputFile.written

C8_Witness ==
    /\ pc = "ex_returned"
    /\ osStatus \in ErrStatuses
    /\ Len(exportCalls) = 1
    /\ err.kind = "SecItemExport"

\* C9: the result of FindIdentity does not depend on the order of the records:
\* on every permutation of the result array it finds the same set of identities
\* and returns the same kind of result.
C9_OrderIndependent ==
    (QueryDone /\ WellFormed(store))
    => \A p \in Permutations(1..Len(store)) :
          LET r == FindIdentityOn(Permute(store, p), identityLabel)
          IN  /\ Range(r.ret) = Range(identityRefs)
              /\ ErrorKind(r.err) = ErrorKind(err)

\* C10: in every state of a run of scan no object was released more often than
\* it was acquired, no borrowed reference was released, nothing was used after
\* its last release, and the references FindIdentity returned and scan keeps
\* are valid, also after the result array that held them was released.
C10_NoOverRelease ==
    /\ \A k \in ObjectKinds : rel[k] <= acq[k]
    /\ \A h \in Identities : released[h] <= retained[h] /\ RefCount(h) >= 0
    /\ ~uar
    /\ \A h \in Range(identityExportRefs) : Valid(h)
    /\ (Returned /\ err = NoError) => \A h \in Range(identityRefs) : Valid(h)
    /\ (pc \in {"ex_call", "ex_copy", "ex_write"})
          => \A h \in Range(itemRefsToExport) : Valid(h)

C10_Witness ==
    /\ pc = "done"
    /\ Len(exportCalls) = 1
    /\ Len(identityExportRefs) = 2
    /\ ~Live("resultRefs")
    /\ rel["resultRefs"] = 2

\* C11: on every return of FindIdentity and of ExportFromKeychain, every object
\* the function created or copied and does not return (query dictionary, result
\* array, key strings, passphrase string, export array, exported data) has been
\* released.
C11_OwnObjectsReleased ==
    (pc \in {"fi_returned", "ex_returned"})
    => \A k \in ObjectKinds : rel[k] = acq[k]

\* C12: in a run of scan the export is called at most once, only when every
\* label was resolved, with one retained reference per label in label order;
\* while a label is unresolved there is no export call and no file.
C12_ExportOnceAfterAll ==
    /\ Len(exportCalls) <= 1
    /\ \A c \in 1..Len(exportCalls) :
         /\ Len(exportCalls[c]) = Len(labels)
         /\ \A k \in 1..Len(exportCalls[c]) :
              LET h == exportCalls[c][k]
              IN  /\ store[h].labl = StringValue(labels[k])
                  /\ store[h].v_Ref = IdentityRef(h)
                  /\ retained[h] - released[h] >= Occurrences(exportCalls[c], h)
    /\ (Len(identityExportRefs) < Len(labels))
          => (exportCalls = << >> /\ writeCalls = << >> /\ ~outputFile.written)
    /\ (exportCalls = << >>) => (writeCalls = << >> /\ ~outputFile.written)

C12_Witness ==
    /\ Len(exportCalls) = 1
    /\ Len(labels) = 2
    /\ labels[1] # labels[2]
    /\ outputFile.written

\* C13: ReleaseRefList releases every element of its slice exactly once, in the
\* order of the slice, and nothing else; on an empty slice it releases nothing.
C13_ReleaseEachOnceInOrder ==
    (pc = "rl_returned")
    => /\ releaseLog = refItems
       /\ \A h \in Identities : released[h] = Occurrences(refItems, h)
       /\ rel = NoObjects
       /\ (refItems = << >>) => (releaseLog = << >> /\ released = NoRefs)

C13_Witness ==
    /\ pc = "rl_returned"
    /\ Len(refItems) >= 3
    /\ refItems[1] # refItems[2]
    /\ releaseLog # << >>

\* C14: when the write fails after a successful export, ExportFromKeychain
\* returns an error with the file system's error, the write and the export were
\* each made once, and the exported data was released exactly once.
C14_WriteFailure ==
    /\ Len(writeCalls) <= 1
    /\ (pc = "ex_returned" /\ writeCalls # << >> /\ writeCalls[1] # "")
       => /\ err = Error("WriteFile", 0, writeCalls[1])
          /\ ErrorKind(err) = "IoFailure"
          /\ Len(exportCalls) = 1
          /\ acq["exportedData"] = 1
          /\ rel["exportedData"] = 1

C14_Witness ==
    /\ pc = "ex_returned"
    /\ writeCalls = << "no space left on device" >>
    /\ outputFile.written
    /\ rel["exportedData"] = 1

\* C15: a failed query gives an error with the status, the query dictionary
\* released once and the result array (never produced) not released; a query
\* that succeeds with an empty array gives NotFound with the array released
\* once. In both cases nothing is scanned and nothing retained.
C15_QueryOutcomes ==
    /\ (Returned /\ osStatus # errSecSuccess)
       => /\ err = Error("SecItemCopyMatch", osStatus, "")
          /\ ErrorKind(err) = "StoreFailure"
          /\ acq["queryDict"] = idx /\ rel["queryDict"] = idx
          /\ acq["resultRefs"] = idx - 1 /\ rel["resultRefs"] = idx - 1
          /\ (idx = 1) => acq["keyString"] = 0
          /\ identityRefs = << >>
          /\ held = NoRefs
          /\ \A h \in Identities : CallOutstanding(h) = 0
    /\ (Returned /\ osStatus = errSecSuccess /\ Len(store) = 0)
       => /\ err = Error("NoIdentity", 0, "")
          /\ ErrorKind(err) = "NotFound"
          /\ acq["queryDict"] = idx /\ rel["queryDict"] = idx
          /\ acq["resultRefs"] = idx /\ rel["resultRefs"] = idx
          /\ acq["keyString"] = 0
          /\ identityRefs = << >>
          /\ retained = NoRefs

C15_Witness ==
    /\ Returned
    /\ osStatus \in ErrStatuses
    /\ idx = 2
    /\ acq["resultRefs"] = 1

\* The conditions of the reader's design, for the messages the code returns.
ReaderCondition(msg) ==
    CASE msg = "" -> "found"
      [] msg = "getCFDictValueRef: Key doesn't exist" -> "missing key"
      [] msg = "getCFDictValueCFStringRef: Nil value returned" -> "missing value"
      [] msg = "getCFDictValueUTF8String: failed to convert value to string"
           -> "missing value"
      [] msg = "getCFDictValueCFStringRef: value is not a string"
           -> "type mismatch"

\* What the design asks of a string read of this value.
ExpectedCondition(v) ==
    CASE v.tag = "absent" -> "missing key"
      [] v.tag \in {"null", "stringnoptr"} -> "missing value"
      [] v.tag \in {"number", "identity"} -> "type mismatch"
      [] v.tag = "string" -> "found"

\* C16: the attribute reader returns a missing-key error for an absent key, a
\* missing-value error for a null value or a string without a C string, a type
\* mismatch for a value that is no string, and else the string; the reference
\* read returns the value exactly when the key is present.
C16_ReaderOutcomes ==
    /\ (pc = "rd_string")
       => LET v == store[1][readKey]
          IN  /\ ReaderCondition(readOut.err) = ExpectedCondition(v)
              /\ (readOut.err = "") => readOut.str = v.text
              /\ (readOut.err # "") => readOut.str = ""
    /\ (pc = "rd_ref")
       => LET v == store[1][readKey]
          IN  /\ (readOut.err = "") <=> (v.tag # "absent")
              /\ (readOut.err = "") => readOut.val = v
              /\ (readOut.err # "") => ReaderCondition(readOut.err) = "missing key"

C16_Witness ==
    /\ pc = "rd_string"
    /\ store[1][readKey].tag = "number"
    /\ readOut.err # ""

\* C17: ExportFromKeychain only borrows its input: on every return each input
\* reference has the reference count it had before the call.
C17_InputsOnlyBorrowed ==
    (pc \in {"ex_returned", "panic"})
    => \A h \in Identities : RefCount(h) = Occurrences(itemRefsToExport, h)

\* C18, as stated: in an iteration of the filter loop a record with another
\* label changes neither the accumulator nor any reference count, and a record
\* with the requested label adds exactly one retain and one accumulator entry.
C18_IterationFrame ==
    [][FindIdentity_Iterate =>
        LET rec == CFArrayGetValueAtIndex(store, i)
        IN  /\ (rec.labl.tag = "string" /\ rec.labl.text # identityLabel)
               => /\ retIdentityRefs' = retIdentityRefs
                  /\ retained' = retained /\ released' = released /\ held' = held
            /\ (rec.labl = StringValue(identityLabel))
               => \E h \in Identities :
                     /\ retIdentityRefs' = Append(retIdentityRefs, h)
                     /\ retained' = [retained EXCEPT ![h] = @ + 1]
    ]_vars

\* C18, amended: as C18, for a record with the requested label whose v_Ref can
\* be read; when its v_Ref is missing the call returns an error and the
\* iteration adds no retain and no accumulator entry.
C18_IterationFrameAmended ==
    [][FindIdentity_Iterate =>
        LET rec == CFArrayGetValueAtIndex(store, i)
        IN  /\ (rec.labl.tag = "string" /\ rec.labl.text # identityLabel)
               => /\ retIdentityRefs' = retIdentityRefs
                  /\ retained' = retained /\ released' = released /\ held' = held
                  /\ pc' = "fi_loop"
            /\ (rec.labl = StringValue(identityLabel) /\ rec.v_Ref.tag = "identity")
               => /\ retIdentityRefs' = Append(retIdentityRefs, rec.v_Ref.id)
                  /\ retained' = [retained EXCEPT ![rec.v_Ref.id] = @ + 1]
                  /\ released' = released /\ held' = held
                  /\ pc' = "fi_loop"
            /\ (rec.labl = StringValue(identityLabel) /\ rec.v_Ref.tag = "absent")
               => /\ retIdentityRefs' = retIdentityRefs
                  /\ retained' = retained /\ released' = released
                  /\ err'.kind = "v_Ref"
                  /\ pc' = "fi_returned"
    ]_vars

C18_Witness ==
    /\ pc = "fi_loop"
    /\ i = 1
    /\ Len(retIdentityRefs) = 1
    /\ store[3].labl = StringValue(identityLabel)
    /\ store[2].labl.tag = "string"
    /\ store[2].labl.text # identityLabel

\* C19: scan never calls the export with an empty list: a run without required
\* identities ends before any keychain operation, and the export is reached
\* with one reference for each label.
C19_NoEmptyExport ==
    /\ pc # "panic"
    /\ \A c \in 1..Len(exportCalls) : Len(exportCalls[c]) >= 1
    /\ (pc \in {"ex_begin", "ex_call", "ex_copy", "ex_write"})
          => (Len(itemRefsToExport) = Len(labels) /\ Len(itemRefsToExport) >= 1)
    /\ (labels = << >>)
          => /\ pc \in {"start", "fatal"}
             /\ acq = NoObjects
             /\ retained = NoRefs
             /\ exportCalls = << >>

C19_Witness ==
    /\ labels = << >>
    /\ pc = "fatal"

\* C20: when the user declines the export, scan ends without any keychain
\* query, retain, release or export, and creates neither the export directory
\* nor a file.
C20_DeclineDoesNothing ==
    (answer = "no")
    => /\ pc = "done"
       /\ acq = NoObjects /\ rel = NoObjects
       /\ held = NoRefs /\ retained = NoRefs /\ released = NoRefs
       /\ exportCalls = << >> /\ writeCalls = << >> /\ releaseLog = << >>
       /\ osStatus = errSecSuccess
       /\ ~dirCreated
       /\ ~outputFile.written

C20_Witness ==
    /\ answer = "no"
    /\ pc = "done"
    /\ labels # << >>

====
